---- MODULE Spec2Model ----
(***************************************************************************)
(* Event queue and delivery pipeline of AnalyticsTracker                   *)
(* (src/unnamed/part_000): consent-gated enqueue, size/timer/teardown      *)
(* flush, Transport.send with sendBeacon and fetch retry/backoff.          *)
(*                                                                         *)
(* One step of the model is one run-to-completion turn of the JavaScript   *)
(* event loop: a public call, a timer or beforeunload callback, or the     *)
(* continuation of an awaited fetch / setTimeout.  `void this.flush()`     *)
(* runs synchronously up to its first await, which is the fetch of attempt *)
(* 1 inside Transport.send, so the snapshot, the clear and the start of    *)
(* attempt 1 belong to the step that called flush.                         *)
(***************************************************************************)
EXTENDS Integers, Sequences, FiniteSets, TLC

\* ---------------------------------------------------------------- bounds
MaxEvents == 3           \* enqueue calls in one run (the constructor's included)
MaxBatchSize == 3        \* Spec: config.batchSize ranges over 1..MaxBatchSize
MaxAttempts == 2         \* Spec: config.retryMaxAttempts ranges over 1..MaxAttempts
MaxBackoffBase == 1      \* Spec: config.retryBackoffBaseMs ranges over 1..MaxBackoffBase
SendMaxAttempts == 4     \* SpecSend: config.retryMaxAttempts ranges over 1..SendMaxAttempts
LiveMaxBatchSize == 2    \* SpecLive: config.batchSize ranges over 1..LiveMaxBatchSize
SendMaxBackoffBase == 3  \* SpecSend: config.retryBackoffBaseMs ranges over 1..SendMaxBackoffBase
MaxPosted == 2           \* SpecStore: events in the body of one POST
MaxStored == 5           \* SpecStore: events the endpoint stores in one run

\* ----------------------------------------------------------------- state
VARIABLES
  config,      \* this.config: siteId, batchSize, retryBackoffBaseMs, retryMaxAttempts
  hasConsent,  \* this.hasConsent
  sessionId,   \* this.sessionId ("" until consent)
  queue,       \* this.queue: sequence of events
  flights,     \* the flush calls suspended in `await this.transport.send(...)`:
               \* one frame each, holding flush's batch and send's locals
  delivered,   \* bodies the endpoint answered 2xx, in completion order
  beaconed,    \* bodies navigator.sendBeacon accepted, in call order
  offered,     \* history: every event passed to enqueue, in call order
  lastSnap,    \* history: highest event id any snapshot has held (0: none)
  lastSend,    \* history: how the send that ended last went
  sessions,    \* history: the ids createOrRestoreSession has returned, in call order
  listeners,   \* history: how many times initConsentListeners has run
  flushRejected, \* history: the promise of some flush call was rejected
  storedEvents, \* the collection endpoint's storedEvents (line 4)
  response     \* what the endpoint's handler answered last: status and json

vars == <<config, hasConsent, sessionId, queue, flights, delivered, beaconed,
          offered, lastSnap, lastSend, sessions, listeners, flushRejected,
          storedEvents, response>>

SiteIds == {"", "site-1"}
TrackKinds == {"page_view", "event"}
\* enum EventType, lines 65-78: every kind
EventKinds == {"page_view", "event", "goal", "ecommerce", "visibility", "focus",
               "blur", "engagement", "performance", "heatmap", "resource_error",
               "js_error"}
BeaconResults == {"accepted", "rejected", "threw", "unavailable"}

\* --------------------------------------------------------- pure helpers
\* setSiteId, line 258: a falsy siteId is ignored
NoSiteIdIgnored(s) == FALSE
IgnoredSiteId(s) == s = ""

\* grantConsent, line 264: the early return of a repeated call
NeverGranted(consent) == FALSE
AlreadyGranted(consent) == consent

\* createOrRestoreSession, lines 323-336.  stored is what sessionStorage does:
\* it holds an id ("restored"), holds none and takes the new one ("created"),
\* or throws ("unavailable"); made is how many ids were returned before, so
\* that every uuidv4() is a new id.
StorageResults == {"restored", "created", "unavailable"}
uuidv4(made) == IF made = 0 THEN "session-1" ELSE "session-2"
NoSession(stored, made) == ""
createOrRestoreSession(stored, made) ==
  IF stored = "restored" THEN "session-0" ELSE uuidv4(made)

\* enqueue, lines 368-371: kinds let through without consent
AllowAnyKind(type) == TRUE
AllowWithoutConsent(type) == type \in {"page_view", "performance", "engagement"}

\* enqueue, lines 362-375: the two early returns
AdmitWithoutSite(type, siteId, consent) == consent \/ AllowWithoutConsent(type)
Admit(type, siteId, consent) ==
  /\ siteId # ""
  /\ (consent \/ AllowWithoutConsent(type))

\* buildEvent, lines 338-359 (id is the object's identity)
buildEvent(type, id, sess) == [id |-> id, type |-> type, sessionId |-> sess]

\* enqueue, line 378: attach session if available
BackFill(ev, sess) == IF sess # "" THEN [ev EXCEPT !.sessionId = sess] ELSE ev

\* trackPage / trackEvent with enqueue, lines 277-297 and 377-378: the event
\* an enqueue call handles, built by buildEvent and back-filled
Unstamped(type, id, sess) == buildEvent(type, id, "")
Stamped(type, id, sess) == BackFill(buildEvent(type, id, sess), sess)

\* enqueue, line 379: this.queue.push(ev)
PushFront(q, ev) == <<ev>> \o q
Push(q, ev) == Append(q, ev)

\* enqueue, line 382
ThresholdAbove(q, batchSize) == Len(q) > batchSize
ThresholdReached(q, batchSize) == Len(q) >= batchSize

\* flush, line 394: batch = this.queue.slice()
Snapshot(q) == q

\* flush, line 395: this.queue = []
KeepQueue(q) == q
KeepTail(q) == SubSeq(q, config.batchSize + 1, Len(q))
ClearQueue(q) == <<>>

\* flush, lines 397-401: the serialized body (ts left out)
Body(siteId, batch) == [siteId |-> siteId, events |-> batch]

\* flush, line 405: a resolved send leaves the queue alone
FlushedRequeues(batch, q) == batch \o q
Flushed(batch, q) == q

\* flush, line 408: this.queue.unshift(...batch)
RequeueDrops(batch, q) == q
Requeue(batch, q) == batch \o q

\* enqueue, lines 361-385: no await and no test of a pending flush; the call
\* runs whatever is in flight
EnqueueWaits(inFlight) == inFlight = {}
EnqueueRuns(inFlight) == TRUE

\* enqueue, lines 364, 374 and 382: the size test is reached only by an
\* admitted event
FlushAfterAny(ok, q, batchSize) == ThresholdReached(q, batchSize)
FlushAfter(ok, q, batchSize) == ok /\ ThresholdReached(q, batchSize)

\* flush, lines 388-392: the two early returns
OnlyChecksSiteId(q, siteId) == siteId = ""
NothingToFlush(q, siteId) == Len(q) = 0 \/ siteId = ""

\* flush, lines 403-410: whether the promise of flush is rejected when send
\* ends with outcome; the try/catch around the await swallows what send throws
FlushRethrows(outcome) == outcome = "Failed"
FlushRejects(outcome) == FALSE

\* send, lines 183-194: in sync mode a truthy sendBeacon result makes send return
BeaconFallsThrough(sync, beacon) == FALSE
BeaconOk(sync, beacon) == sync /\ beacon = "accepted"

\* flush, lines 403-410: the catch does not look at the mode of the flush
CatchAsyncOnly(sync, batch, q) == IF sync THEN q ELSE Requeue(batch, q)
CatchFailure(sync, batch, q) == Requeue(batch, q)

\* send, line 218
ExhaustedLate(attempt, maxAttempts) == attempt > maxAttempts
RetriesExhausted(attempt, maxAttempts) == attempt >= maxAttempts

\* send, line 220: Math.round(Math.random() * delay)
Jitters(delay) == 0..delay

\* send, line 222
SameDelay(delay) == delay
NextDelay(delay) == delay * 2

\* Transport.send, lines 201-207, the first pass of the loop: the frame of a
\* flush suspended in attempt 1.  wait is the duration of the backoff timer
\* set last (0: none yet); fetches, fails and nwaits count what send has done.
NewFrame(batch, siteId, sync, base) ==
  [sync |-> sync, batch |-> batch, body |-> Body(siteId, batch),
   pc |-> "Attempting", attempt |-> 1, delay |-> base,
   wait |-> 0, fetches |-> 1, fails |-> 0, nwaits |-> 0]

\* What is remembered of a send that ended
Ended(outcome, f) ==
  [outcome |-> outcome, fetches |-> f.fetches, fails |-> f.fails, nwaits |-> f.nwaits]

NoSend == [outcome |-> "none", fetches |-> 0, fails |-> 0, nwaits |-> 0]

Max(S) == CHOOSE k \in S : \A j \in S : j <= k
MaxId(s, m) == Max({m} \cup {s[i].id : i \in DOMAIN s})

\* AnalyticsTracker.flush, lines 387-404, run on queue value q up to the first
\* await.  In sync mode an accepted sendBeacon makes send return at once
\* (lines 183-194) and flush resolves (line 405); so does a loop that is never
\* entered (line 204).
flush(q, sync, beacon) ==
  IF NothingToFlush(q, config.siteId)
    THEN /\ queue' = q
         /\ UNCHANGED <<flights, delivered, beaconed, lastSnap, lastSend>>
    ELSE LET batch == Snapshot(q)
             body == Body(config.siteId, batch)
         IN /\ lastSnap' = MaxId(batch, lastSnap)
            /\ delivered' = delivered
            /\ IF BeaconOk(sync, beacon)
                 THEN /\ beaconed' = Append(beaconed, body)
                      /\ queue' = Flushed(batch, ClearQueue(q))
                      /\ lastSend' = [NoSend EXCEPT !.outcome = "Beacon"]
                      /\ flights' = flights
               ELSE IF 0 < config.retryMaxAttempts
                 THEN /\ flights' = flights \cup
                           {NewFrame(batch, config.siteId, sync,
                                     config.retryBackoffBaseMs)}
                      /\ queue' = ClearQueue(q)
                      /\ UNCHANGED <<beaconed, lastSend>>
               ELSE /\ queue' = Flushed(batch, ClearQueue(q))
                    /\ lastSend' = [NoSend EXCEPT !.outcome = "Returned"]
                    /\ UNCHANGED <<flights, beaconed>>

\* ------------------------------------------------- collection endpoint
\* The requests the handler is given (lines 28-31): a method and a parsed
\* body, which is a batch with an events list, an object without one, or
\* nothing at all.
Methods == {"POST", "GET", "PUT", "DELETE"}
PostedEvents == {buildEvent(type, 0, "") : type \in TrackKinds}
Batches == UNION {[1..n -> PostedEvents] : n \in 0..MaxPosted}
Bodies == {[siteId |-> "site-1", events |-> b] : b \in Batches}
            \cup {[siteId |-> "site-1"], [none |-> TRUE]}
Requests == [method : Methods, body : Bodies]

\* handler, line 35: storedEvents.push(...batch.events)
ReplaceAll(stored, events) == events
PushAll(stored, events) == stored \o events

\* handler, line 32: batch.events.length throws when the body has no events
HasEvents(body) == "events" \in DOMAIN body

NoResponse == [status |-> 0, json |-> [none |-> TRUE]]

\* handler, lines 28-48: the store it leaves and the response it sends
handler(stored, req) ==
  IF req.method = "POST"
    THEN IF HasEvents(req.body)
           THEN [stored |-> PushAll(stored, req.body.events),
                 status |-> 200, json |-> [status |-> "ok"]]
           ELSE [stored |-> stored,
                 status |-> 500, json |-> [error |-> "Internal server error"]]
  ELSE IF req.method = "GET"
    THEN [stored |-> stored, status |-> 200, json |-> [events |-> stored]]
  ELSE [stored |-> stored, status |-> 405, json |-> [error |-> "Method not allowed"]]

\* ------------------------------------------------------------------ Init
\* The state the constructor leaves (lines 241-253): defaults merged with the
\* given config, then initLightListeners -> trackPage() -> enqueue(page_view),
\* which may already reach batchSize and start a flush.
InitWith(sites, sizes, attempts, bases) ==
  \E s \in sites, b \in sizes, a \in attempts, d \in bases :
    LET ev == Stamped("page_view", 1, "")
        ok == Admit("page_view", s, FALSE)
        q1 == IF ok THEN Push(<<>>, ev) ELSE <<>>
        go == ok /\ ThresholdReached(q1, b) /\ 0 < a
        batch == Snapshot(q1)
    IN /\ config = [siteId |-> s, batchSize |-> b, retryBackoffBaseMs |-> d,
                    retryMaxAttempts |-> a]
       /\ hasConsent = FALSE
       /\ sessionId = ""
       /\ sessions = <<>>
       /\ listeners = 0
       /\ flushRejected = FALSE
       /\ storedEvents = <<>>
       /\ response = NoResponse
       /\ offered = <<[type |-> "page_view", consent |-> FALSE, admitted |-> ok]>>
       /\ queue = IF go THEN ClearQueue(q1) ELSE q1
       /\ flights = IF go THEN {NewFrame(batch, s, FALSE, d)} ELSE {}
       /\ delivered = <<>>
       /\ beaconed = <<>>
       /\ lastSnap = IF go THEN MaxId(batch, 0) ELSE 0
       /\ lastSend = NoSend

Init == InitWith(SiteIds, 1..MaxBatchSize, 1..MaxAttempts, 1..MaxBackoffBase)

\* --------------------------------------------------------------- actions
\* setSiteId, lines 257-261
SetSiteId(s) ==
  /\ config' = IF IgnoredSiteId(s) THEN config ELSE [config EXCEPT !.siteId = s]
  /\ UNCHANGED <<storedEvents, response>>
  /\ UNCHANGED <<hasConsent, sessionId, sessions, listeners, queue, flights,
                 delivered, beaconed, offered, lastSnap, lastSend, flushRejected>>

\* grantConsent, lines 263-270 with createOrRestoreSession, lines 323-336
GrantConsent ==
  /\ IF AlreadyGranted(hasConsent)
       THEN UNCHANGED <<hasConsent, sessionId, sessions, listeners>>
       ELSE \E stored \in StorageResults :
              LET id == createOrRestoreSession(stored, Len(sessions))
              IN /\ hasConsent' = TRUE
                 /\ sessionId' = id
                 /\ sessions' = Append(sessions, id)
                 /\ listeners' = listeners + 1
  /\ UNCHANGED <<storedEvents, response>>
  /\ UNCHANGED <<config, queue, flights, delivered, beaconed, offered,
                 lastSnap, lastSend, flushRejected>>

\* trackPage / trackEvent, lines 277-297: buildEvent then enqueue (lines 361-385),
\* the size-triggered `void this.flush(false)` included.
Track(type) ==
  /\ Len(offered) < MaxEvents
  /\ EnqueueRuns(flights)
  /\ LET n == Len(offered) + 1
         ev == Stamped(type, n, sessionId)
         ok == Admit(type, config.siteId, hasConsent)
         q1 == IF ok THEN Push(queue, ev) ELSE queue
     IN /\ offered' = Append(offered, [type |-> type, consent |-> hasConsent,
                                       admitted |-> ok])
        /\ IF FlushAfter(ok, q1, config.batchSize)
             THEN flush(q1, FALSE, "unavailable")
           ELSE /\ queue' = q1
                /\ UNCHANGED <<flights, delivered, beaconed, lastSnap, lastSend>>
  /\ UNCHANGED <<storedEvents, response>>
  /\ UNCHANGED <<config, hasConsent, sessionId, sessions, listeners, flushRejected>>

\* startAutoFlush, lines 413-419: the interval callback
TimerIdle == UNCHANGED vars
TimerFlush ==
  /\ flush(queue, FALSE, "unavailable")
  /\ UNCHANGED <<storedEvents, response>>
  /\ UNCHANGED <<config, hasConsent, sessionId, sessions, listeners, offered,
                 flushRejected>>

\* flushNow, lines 313-315
FlushNow ==
  /\ flush(queue, FALSE, "unavailable")
  /\ UNCHANGED <<storedEvents, response>>
  /\ UNCHANGED <<config, hasConsent, sessionId, sessions, listeners, offered,
                 flushRejected>>

\* initLightListeners, lines 429-432: the beforeunload handler, flush(true);
\* beacon is what navigator.sendBeacon does (lines 183-199).
Unload(beacon) ==
  /\ flush(queue, TRUE, beacon)
  /\ UNCHANGED <<storedEvents, response>>
  /\ UNCHANGED <<config, hasConsent, sessionId, sessions, listeners, offered,
                 flushRejected>>

\* send, lines 207-215: the awaited fetch resolves with res.ok, send returns
\* and flush resolves (line 405); the frame is gone.
FetchOk(f) ==
  /\ f.pc = "Attempting"
  /\ flights' = flights \ {f}
  /\ delivered' = Append(delivered, f.body)
  /\ queue' = Flushed(f.batch, queue)
  /\ lastSend' = Ended("Delivered", f)
  /\ flushRejected' = (flushRejected \/ FlushRejects("Delivered"))
  /\ UNCHANGED <<storedEvents, response>>
  /\ UNCHANGED <<config, hasConsent, sessionId, sessions, listeners, beaconed, offered, lastSnap>>

\* send, lines 213-221: the fetch rejects or answers non-2xx.  On the last
\* attempt the error is rethrown and flush requeues (lines 406-409); otherwise
\* the jitter is drawn and the backoff timer is set.
FetchFail(f) ==
  /\ f.pc = "Attempting"
  /\ IF RetriesExhausted(f.attempt, config.retryMaxAttempts)
       THEN /\ flights' = flights \ {f}
            /\ queue' = CatchFailure(f.sync, f.batch, queue)
            /\ lastSend' = Ended("Failed", [f EXCEPT !.fails = @ + 1])
            /\ flushRejected' = (flushRejected \/ FlushRejects("Failed"))
       ELSE /\ \E jitter \in Jitters(f.delay) :
                 flights' = (flights \ {f}) \cup
                   {[f EXCEPT !.pc = "Backoff", !.fails = @ + 1, !.nwaits = @ + 1,
                              !.wait = f.delay + jitter]}
            /\ UNCHANGED <<queue, lastSend, flushRejected>>
  /\ UNCHANGED <<storedEvents, response>>
  /\ UNCHANGED <<config, hasConsent, sessionId, sessions, listeners, delivered, beaconed, offered, lastSnap>>

\* send, lines 221-222 and 204-207: the backoff timer fires, delay doubles, the
\* loop test runs and the next fetch is issued; a loop that ends makes send
\* return and flush resolve (line 405).
BackoffDone(f) ==
  /\ f.pc = "Backoff"
  /\ IF f.attempt < config.retryMaxAttempts
       THEN /\ flights' = (flights \ {f}) \cup
                   {[f EXCEPT !.pc = "Attempting", !.delay = NextDelay(@),
                              !.attempt = @ + 1, !.fetches = @ + 1]}
            /\ UNCHANGED <<queue, lastSend, flushRejected>>
       ELSE /\ flights' = flights \ {f}
            /\ queue' = Flushed(f.batch, queue)
            /\ lastSend' = Ended("Returned", f)
            /\ flushRejected' = (flushRejected \/ FlushRejects("Returned"))
  /\ UNCHANGED <<storedEvents, response>>
  /\ UNCHANGED <<config, hasConsent, sessionId, sessions, listeners, delivered, beaconed, offered, lastSnap>>

Next ==
  \/ \E s \in SiteIds : SetSiteId(s)
  \/ GrantConsent
  \/ \E type \in TrackKinds : Track(type)
  \/ TimerFlush
  \/ FlushNow
  \/ \E beacon \in BeaconResults : Unload(beacon)
  \/ \E f \in flights : FetchOk(f)
  \/ \E f \in flights : FetchFail(f)
  \/ \E f \in flights : BackoffDone(f)

Spec == Init /\ [][Next]_vars

\* The transport followed through one flush at a time: a tracker constructed
\* with siteId set and batchSize 1, so that the constructor's page view is
\* already in flight, under every retry configuration; the timer flushes a
\* batch again after it was put back.
InitSend == InitWith({"site-1"}, {1}, 1..SendMaxAttempts, 1..SendMaxBackoffBase)

NextSend ==
  \/ \E f \in flights : FetchOk(f)
  \/ \E f \in flights : FetchFail(f)
  \/ \E f \in flights : BackoffDone(f)
  \/ TimerFlush

SpecSend == InitSend /\ [][NextSend]_vars

\* The gate under every kind: construction with or without siteId, setSiteId,
\* grantConsent, and enqueue of an event of any kind of the enum.
InitGate == InitWith(SiteIds, {MaxBatchSize}, {1}, {1})

NextGate ==
  \/ \E s \in SiteIds : SetSiteId(s)
  \/ GrantConsent
  \/ \E type \in EventKinds : Track(type)

SpecGate == InitGate /\ [][NextGate]_vars

\* The pipeline left to run: a tracker with siteId set, its producers, the
\* beforeunload handler and the transport.  setInterval keeps calling the timer
\* callback (lines 416-418), a pending fetch settles and a backoff timer fires
\* (lines 207, 221): each is weakly fair.
InitLive == InitWith({"site-1"}, 1..LiveMaxBatchSize, 1..MaxAttempts, 1..MaxBackoffBase)

NextLive ==
  \/ \E type \in TrackKinds : Track(type)
  \/ TimerFlush
  \/ \E beacon \in BeaconResults : Unload(beacon)
  \/ \E f \in flights : FetchOk(f)
  \/ \E f \in flights : FetchFail(f)
  \/ \E f \in flights : BackoffDone(f)

SpecLive ==
  /\ InitLive /\ [][NextLive]_vars
  /\ WF_vars(TimerFlush)
  /\ WF_vars(\E f \in flights : FetchOk(f) \/ FetchFail(f))
  /\ WF_vars(\E f \in flights : BackoffDone(f))

\* The collection endpoint alone (lines 1-48): the module is loaded with an
\* empty storedEvents and the handler is called once per request.
Handle(req) ==
  /\ LET out == handler(storedEvents, req)
     IN /\ Len(out.stored) <= MaxStored
        /\ storedEvents' = out.stored
        /\ response' = [status |-> out.status, json |-> out.json]
  /\ UNCHANGED <<config, hasConsent, sessionId, sessions, listeners, queue,
                 flights, delivered, beaconed, offered, lastSnap, lastSend,
                 flushRejected>>

InitStore == InitWith({"site-1"}, {MaxBatchSize}, {1}, {1})

NextStore == \E req \in Requests : Handle(req)

SpecStore == InitStore /\ [][NextStore]_vars

\* ------------------------------------------- vocabulary of the properties
Ids(s) == [i \in DOMAIN s |-> s[i].id]
IdSet(s) == {s[i].id : i \in DOMAIN s}

\* The kinds the specification exempts from consent
ExemptKinds == {"page_view", "performance", "engagement"}

AdmittedIds == {i \in DOMAIN offered : offered[i].admitted}

\* The elements of a finite set of numbers in increasing order
SeqOf(S) == CHOOSE s \in [1..Cardinality(S) -> S] :
              \A i, j \in 1..Cardinality(S) : i < j => s[i] < s[j]

\* In how many places an event is: positions of the queue, of in-flight
\* batches, of bodies answered 2xx and of bodies the beacon accepted
InQueue(id) == Cardinality({i \in DOMAIN queue : queue[i].id = id})
InFlights(id) ==
  Cardinality({p \in UNION {{<<f, i>> : i \in DOMAIN f.batch} : f \in flights} :
                 p[1].batch[p[2]].id = id})
InLog(log, id) ==
  Cardinality({p \in UNION {{<<k, i>> : i \in DOMAIN log[k].events} : k \in DOMAIN log} :
                 log[p[1]].events[p[2]].id = id})
Places(id) == InQueue(id) + InFlights(id) + InLog(delivered, id) + InLog(beaconed, id)

AliveIds == IdSet(queue) \cup UNION {IdSet(f.batch) : f \in flights}

\* The queue holds nothing a failed flush has put back
Fresh == \A i \in DOMAIN queue : queue[i].id > lastSnap

\* The step is an enqueue call
TrackStep == Len(offered') = Len(offered) + 1

\* The step ends f's send in failure: the frame goes and nothing is delivered
FailedStep(f) ==
  /\ f.pc = "Attempting"
  /\ \A g \in flights' : g.body # f.body
  /\ delivered' = delivered
  /\ lastSend'.outcome = "Failed"

\* Every event record held anywhere: in the queue, in a batch in flight, in a
\* body answered 2xx or in a body the beacon accepted
EventsOf(s) == {s[i] : i \in DOMAIN s}
AllEvents ==
  EventsOf(queue) \cup UNION {EventsOf(f.batch) : f \in flights}
    \cup UNION {EventsOf(delivered[k].events) : k \in DOMAIN delivered}
    \cup UNION {EventsOf(beaconed[k].events) : k \in DOMAIN beaconed}

\* --------------------------------------------------------------- claims

\* C1: every admitted event is in exactly one place (the queue, one in-flight
\* batch, or a body handed off by a completed send), in every reachable state;
\* and the batch of a flush in flight never changes, so an event enqueued
\* meanwhile is never part of it.
C1_ExactlyOnePlace == \A id \in AdmittedIds : Places(id) = 1
C1_BatchesFixed ==
  \A f \in flights : \A g \in flights' :
    IdSet(f.batch) \cap IdSet(g.batch) # {} => g.batch = f.batch /\ g.body = f.body
C1_NoLossNoDuplication == [] C1_ExactlyOnePlace /\ [][C1_BatchesFixed]_vars

\* C1 witness: one batch delivered, a later one in flight, and an event
\* enqueued after that snapshot waiting in the queue.
C1_Witness ==
  /\ delivered # <<>>
  /\ queue # <<>>
  /\ \E f \in flights : \A i \in DOMAIN queue : queue[i].id > MaxId(f.batch, 0)

\* C2 (as claimed): global FIFO.  Whenever two events are both in the queue the
\* one enqueued first is ahead, and no event is delivered in a batch that
\* completes before the batch delivering an event enqueued earlier.
C2_QueueInOrder ==
  \A i, j \in DOMAIN queue : i < j => queue[i].id < queue[j].id
C2_DeliveredInOrder ==
  \A k, l \in DOMAIN delivered : k < l =>
    \A a \in IdSet(delivered[k].events), b \in IdSet(delivered[l].events) : a < b
C2_GlobalFIFO == C2_QueueInOrder /\ C2_DeliveredInOrder

\* C3: an event of a non-exempt kind passed to enqueue before consent is in no
\* place in any later state; one passed to enqueue after consent, with siteId
\* set, is admitted and sits in the queue or in the batch that call flushed.
C3_NeverAnywhere ==
  \A i \in DOMAIN offered :
    (offered[i].type \notin ExemptKinds /\ ~offered[i].consent) => Places(i) = 0
C3_AdmittedAfterConsent ==
  LET n == Len(offered') IN
  (TrackStep /\ offered'[n].type \notin ExemptKinds /\ hasConsent /\ config.siteId # "")
    => /\ offered'[n].admitted
       /\ \/ n \in IdSet(queue')
          \/ \E g \in flights' \ flights : n \in IdSet(g.batch)
C3_ConsentGating == [] C3_NeverAnywhere /\ [][C3_AdmittedAfterConsent]_vars

\* C3 witness: a non-exempt event was rejected before consent, and a later one
\* of the same kind, enqueued after consent, has been delivered.
C3_Witness ==
  \E i, j \in DOMAIN offered :
    /\ i < j
    /\ offered[i].type \notin ExemptKinds /\ ~offered[i].consent /\ ~offered[i].admitted
    /\ offered[j].type = offered[i].type /\ offered[j].consent /\ offered[j].admitted
    /\ InLog(delivered, j) = 1

\* C4 (as claimed): when the send of the flush that took the latest snapshot
\* fails its last attempt, the queue becomes that batch, in its order, followed
\* by exactly the events admitted since, in enqueue order; so with no enqueue in
\* between the queue is the pre-flush queue.
C4_RequeueStep ==
  \A f \in flights :
    (~f.sync /\ FailedStep(f) /\ MaxId(f.batch, 0) = lastSnap)
      => /\ SubSeq(queue', 1, Len(f.batch)) = f.batch
         /\ Ids(queue') = Ids(f.batch) \o SeqOf({i \in AdmittedIds : i > lastSnap})
C4_FailureRequeue == [][C4_RequeueStep]_vars

\* C5: an event leaves the queue and the in-flight batches only in a step in
\* which a fetch carrying it is answered 2xx or sendBeacon accepts a body
\* holding it; a failed attempt or an exhausted send removes nothing.
C5_LeaveStep ==
  \A id \in AliveIds \ AliveIds' :
    \/ \E f \in flights :
         /\ f.pc = "Attempting"
         /\ id \in IdSet(f.body.events)
         /\ delivered' = Append(delivered, f.body)
    \/ /\ Len(beaconed') = Len(beaconed) + 1
       /\ id \in IdSet(beaconed'[Len(beaconed')].events)
C5_LeaveOnlyOnConfirmedSend == [][C5_LeaveStep]_vars

\* C5 witness: a send has failed every attempt and its events are back in the
\* queue.
C5_Witness ==
  /\ lastSend.outcome = "Failed"
  /\ \E i \in DOMAIN queue : queue[i].id <= lastSnap

\* C6: when a flush snapshots a queue holding only the N < batchSize events
\* admitted since the previous snapshot (nothing put back in between), the one
\* body it hands to the transport lists exactly those events in enqueue order;
\* and a send that succeeds delivers the body of its own flush.
C6_SnapshotStep ==
  LET expected == SeqOf({i \in AdmittedIds' : i > lastSnap}) IN
  (lastSnap' > lastSnap /\ Fresh /\ Len(expected) < config.batchSize)
    => \/ \E g \in flights' \ flights :
            /\ flights' = flights \cup {g}
            /\ Ids(g.body.events) = expected
            /\ g.pc = "Attempting" /\ g.fetches = 1
       \/ /\ Len(beaconed') = Len(beaconed) + 1
          /\ Ids(beaconed'[Len(beaconed')].events) = expected
C6_DeliverStep ==
  delivered' # delivered =>
    \E f \in flights : /\ f.pc = "Attempting"
                       /\ flights' = flights \ {f}
                       /\ delivered' = Append(delivered, f.body)
                       /\ f.body.events = f.batch
C6_OrderWithinOneFlush == [][C6_SnapshotStep /\ C6_DeliverStep]_vars

\* C6 witness: a delivered body holds two events, fewer than batchSize, in
\* enqueue order.
C6_Witness ==
  \E k \in DOMAIN delivered :
    /\ Len(delivered[k].events) = 2
    /\ Len(delivered[k].events) < config.batchSize
    /\ delivered[k].events[1].id < delivered[k].events[2].id

\* C7: starting from a queue emptied by the last snapshot, with nothing put
\* back, an admitting enqueue starts no flush while fewer than batchSize events
\* have been admitted, and the one that admits the batchSize-th starts exactly
\* one flush, whose batch is all of them, and leaves the queue empty while
\* attempt 1 is still pending.
C7_EnqueueStep ==
  LET n == Len(offered')
      expected == SeqOf({i \in AdmittedIds' : i > lastSnap})
  IN (TrackStep /\ offered'[n].admitted /\ Fresh)
       => /\ Len(expected) <= config.batchSize
          /\ Len(expected) < config.batchSize
               => /\ flights' = flights
                  /\ Ids(queue') = expected
                  /\ UNCHANGED <<delivered, beaconed>>
          /\ Len(expected) = config.batchSize
               => /\ queue' = <<>>
                  /\ UNCHANGED <<delivered, beaconed>>
                  /\ \E g \in flights' \ flights :
                       /\ flights' = flights \cup {g}
                       /\ Ids(g.batch) = expected
                       /\ g.body.events = g.batch
                       /\ g.pc = "Attempting" /\ g.fetches = 1
C7_ThresholdFlush == [][C7_EnqueueStep]_vars

\* C7 witness: no send has ended yet, batchSize >= 2 events are in one batch
\* whose first attempt is pending, and the queue is empty.
C7_Witness ==
  /\ lastSend.outcome = "none"
  /\ config.batchSize >= 2
  /\ queue = <<>>
  /\ \E f \in flights : /\ flights = {f}
                        /\ Len(f.batch) = config.batchSize
                        /\ f.pc = "Attempting" /\ f.fetches = 1

\* C8: a send that succeeds after k failed attempts has k < retryMaxAttempts,
\* has made exactly k + 1 attempts and k backoff waits, delivers its body once,
\* and its batch is not put back in the queue.
C8_SuccessStep ==
  \A f \in flights :
    (f.pc = "Attempting" /\ delivered' # delivered /\ f \notin flights')
      => /\ f.fails < config.retryMaxAttempts
         /\ f.fetches = f.fails + 1
         /\ f.nwaits = f.fails
         /\ delivered' = Append(delivered, f.body)
         /\ Cardinality({k \in DOMAIN delivered' : delivered'[k] = f.body}) = 1
         /\ queue' = queue
         /\ IdSet(queue') \cap IdSet(f.batch) = {}
         /\ flights' = flights \ {f}
C8_RetryThenSuccess == [][C8_SuccessStep]_vars

\* C8 witness: a send was delivered on its third attempt, after two failures.
C8_Witness ==
  /\ lastSend = [outcome |-> "Delivered", fetches |-> 3, fails |-> 2, nwaits |-> 2]
  /\ Len(delivered) = 1
  /\ queue = <<>>

\* C9: a send never makes more than retryMaxAttempts attempts and never waits
\* after its last one; a send whose attempts all failed made exactly
\* retryMaxAttempts of them and ended Failed; and an attempt is only ever made
\* by a new flush or by a send still in backoff below the limit, never for a
\* send that has ended.
C9_Bounded ==
  /\ \A f \in flights :
       /\ f.fetches <= config.retryMaxAttempts
       /\ f.fails < config.retryMaxAttempts
       /\ f.pc = "Backoff" => f.nwaits < config.retryMaxAttempts
  /\ lastSend.fetches <= config.retryMaxAttempts
  /\ lastSend.outcome \in {"none", "Beacon", "Delivered", "Failed"}
  /\ lastSend.outcome = "Failed"
       => /\ lastSend.fetches = config.retryMaxAttempts
          /\ lastSend.fails = config.retryMaxAttempts
          /\ lastSend.nwaits = config.retryMaxAttempts - 1
C9_AttemptStep ==
  \A g \in flights' \ flights :
    g.pc = "Attempting" =>
      \/ /\ g.fetches = 1 /\ g.fails = 0
         /\ g.batch = queue
      \/ \E f \in flights \ flights' :
           /\ f.pc = "Backoff" /\ f.body = g.body
           /\ f.fetches < config.retryMaxAttempts
           /\ g.fetches = f.fetches + 1
C9_BoundedAttempts == [] C9_Bounded /\ [][C9_AttemptStep]_vars

\* C9 witness: with retryMaxAttempts >= 3, a send has failed every attempt and
\* its batch is back in the queue.
C9_Witness ==
  /\ config.retryMaxAttempts >= 3
  /\ lastSend.outcome = "Failed"
  /\ lastSend.fetches = config.retryMaxAttempts
  /\ queue # <<>>

\* C10: attempt 1 is made without a wait; the wait after failed attempt n lies
\* between backoffBaseMs * 2^(n-1) and twice that; and within one send each
\* wait is at least the one before, whatever the jitter.
C10_WaitBounds ==
  \A f \in flights :
    /\ f.nwaits = 0 => f.wait = 0
    /\ (f.pc = "Attempting" /\ f.fetches = 1) => f.nwaits = 0
    /\ f.pc = "Backoff"
         => /\ f.nwaits = f.attempt
            /\ f.wait >= config.retryBackoffBaseMs * 2 ^ (f.attempt - 1)
            /\ f.wait <= 2 * config.retryBackoffBaseMs * 2 ^ (f.attempt - 1)
C10_WaitStep ==
  \A f \in flights : \A g \in flights' :
    (g.body = f.body /\ g.nwaits = f.nwaits + 1) => g.wait >= f.wait
C10_BackoffDurations == [] C10_WaitBounds /\ [][C10_WaitStep]_vars

\* C10 witness: a send is in its third backoff wait, drawn with a jitter that is
\* neither 0 nor the whole delay.
C10_Witness ==
  \E f \in flights :
    /\ f.pc = "Backoff" /\ f.nwaits = 3
    /\ f.wait > f.delay /\ f.wait < 2 * f.delay

\* C11: consent goes from ungranted to granted and never back; one session id
\* is obtained and the consent listeners are attached exactly when consent is
\* granted, once; and from a granted state no step, a repeated grantConsent()
\* included, changes the consent flag, the session id or either count.
C11_Once ==
  /\ Len(sessions) = (IF hasConsent THEN 1 ELSE 0)
  /\ listeners = Len(sessions)
  /\ sessionId = (IF hasConsent THEN sessions[1] ELSE "")
C11_GrantedStays ==
  hasConsent => /\ hasConsent'
                /\ UNCHANGED <<sessionId, sessions, listeners>>
C11_IdempotentConsent == [] C11_Once /\ [][C11_GrantedStays]_vars

\* C11 witness: consent was granted, one session id exists, and an event
\* enqueued afterwards carries it and has been delivered.
C11_Witness ==
  /\ hasConsent /\ Len(sessions) = 1 /\ listeners = 1
  /\ \E k \in DOMAIN delivered : \E i \in DOMAIN delivered[k].events :
       delivered[k].events[i].sessionId = sessions[1]

\* C12: whenever the queue is non-empty or a batch is in flight, siteId is
\* set; an enqueue made while siteId is unset admits nothing and leaves the
\* queue alone; and no step, setSiteId("") included, unsets a siteId.
C12_SiteIdSet == (queue # <<>> \/ flights # {}) => config.siteId # ""
C12_SiteIdStep ==
  /\ config.siteId # "" => config'.siteId # ""
  /\ (TrackStep /\ config.siteId = "")
       => /\ ~offered'[Len(offered')].admitted
          /\ UNCHANGED <<queue, flights>>
C12_SiteIdInvariant == [] C12_SiteIdSet /\ [][C12_SiteIdStep]_vars

\* C12 witness: the tracker was constructed without siteId, so its page view
\* was dropped; siteId was set later, and now one event is queued while
\* another is in flight.
C12_Witness ==
  /\ ~offered[1].admitted
  /\ config.siteId # ""
  /\ queue # <<>> /\ flights # {}

\* The step ends f's send: its frame goes
EndStep(f) == \A g \in flights' : g.body # f.body

\* C13 (as claimed): once a sync-mode flush has taken its snapshot, the end of
\* its send, success or failure, leaves the queue as it is.
C13_SyncStepSilent ==
  \A f \in flights : (f.sync /\ EndStep(f)) => queue' = queue
C13_BeaconedGone ==
  \A k \in DOMAIN beaconed : \A id \in IdSet(beaconed[k].events) :
    InQueue(id) = 0 /\ InFlights(id) = 0
C13_SyncEndStep ==
  \A f \in flights :
    (f.sync /\ EndStep(f))
      => \/ /\ delivered' = Append(delivered, f.body)
            /\ queue' = queue
         \/ /\ delivered' = delivered
            /\ f.fails + 1 = config.retryMaxAttempts
            /\ queue' = f.batch \o queue
SyncFetchStarted ==
  /\ queue' = <<>>
  /\ UNCHANGED <<beaconed, delivered>>
  /\ \E g \in flights' \ flights :
       /\ flights' = flights \cup {g}
       /\ g.sync /\ g.batch = queue
       /\ g.pc = "Attempting" /\ g.fetches = 1

\* What it does when sendBeacon returns true: the body is handed to the beacon
\* and no request is made
SyncBeaconOnly ==
  /\ queue' = <<>>
  /\ beaconed' = Append(beaconed, Body(config.siteId, queue))
  /\ UNCHANGED <<flights, delivered>>

C15_NoRejection == ~flushRejected
C15_FailureStep ==
  \A f \in flights :
    FailedStep(f) => /\ queue' = f.batch \o queue
                     /\ ~flushRejected'
C15_FailuresStayInside == [] C15_NoRejection /\ [][C15_FailureStep]_vars

\* C15 witness: a send has failed every attempt, its batch is back in the
\* queue, nothing is in flight and no flush was rejected.
C15_Witness ==
  /\ lastSend.outcome = "Failed" /\ lastSend.fails = config.retryMaxAttempts
  /\ queue # <<>> /\ flights = {}
  /\ ~flushRejected

\* C16: if from some point on no fetch attempt fails (and, the run being
\* finite in events, none is enqueued any more), then from some point on every
\* admitted event that was not handed to the beacon is in a delivered body, the
\* queue is empty and nothing is in flight.
C16_AllOut ==
  /\ queue = <<>> /\ flights = {}
  /\ \A id \in AdmittedIds : InLog(beaconed, id) = 0 => InLog(delivered, id) = 1
C16_EventualDelivery ==
  <>[][~ \E f \in flights : FetchFail(f)]_vars => <>[] C16_AllOut

\* C16 witness: every event of the run was admitted and all are out, the last
\* batch having been delivered on a retry.
C16_Witness ==
  /\ C16_AllOut
  /\ Len(offered) = MaxEvents /\ AdmittedIds = DOMAIN offered
  /\ lastSend.outcome = "Delivered" /\ lastSend.fails >= 1

\* C17: in a state where the queue is empty or siteId is unset, the timer
\* callback, flushNow and the beforeunload handler (whatever sendBeacon would
\* do) can each run, and none of them changes anything: queue, batches in
\* flight, beacon and network logs all stay as they are.
C17_FlushNoOp ==
  (queue = <<>> \/ config.siteId = "")
    => /\ ENABLED TimerFlush /\ ~ ENABLED <<TimerFlush>>_vars
       /\ ENABLED FlushNow /\ ~ ENABLED <<FlushNow>>_vars
       /\ \A beacon \in BeaconResults :
            ENABLED Unload(beacon) /\ ~ ENABLED <<Unload(beacon)>>_vars

\* C17 witness: siteId is set, a batch has been delivered, and the queue is
\* empty with nothing in flight, which is where the timer keeps finding it.
C17_Witness ==
  /\ config.siteId # "" /\ delivered # <<>>
  /\ queue = <<>> /\ flights = {}
  /\ ENABLED TimerFlush

\* C18: an enqueue that the gate rejects (siteId unset, or a non-exempt kind
\* without consent) admits nothing and leaves the queue, the batches in flight
\* and both delivery logs as they were, also when the queue already holds
\* batchSize events or more.
C18_RejectStep ==
  LET n == Len(offered') IN
  (TrackStep /\ (config.siteId = "" \/
                 (offered'[n].type \notin ExemptKinds /\ ~hasConsent)))
    => /\ ~offered'[n].admitted
       /\ UNCHANGED <<queue, flights, delivered, beaconed, lastSnap, lastSend>>
C18_RejectedChangesNothing == [][C18_RejectStep]_vars

\* C18 witness: the last enqueue was rejected for lack of consent while the
\* queue holds at least batchSize events put back by a failed send, and no
\* flush is in flight.
C18_Witness ==
  /\ ~offered[Len(offered)].admitted
  /\ offered[Len(offered)].type \notin ExemptKinds
  /\ config.siteId # ""
  /\ lastSend.outcome = "Failed"
  /\ Len(queue) >= config.batchSize
  /\ flights = {}

\* C19: for every kind, an enqueue admits the event exactly when siteId is set
\* and consent is granted or the kind is page_view, performance or engagement;
\* and the event is in the queue or in the batch just flushed exactly when it
\* was admitted.
C19_AdmitStep ==
  LET n == Len(offered')
      e == offered'[n]
  IN TrackStep
       => /\ e.consent = hasConsent
          /\ e.admitted <=> (config.siteId # "" /\
                              (hasConsent \/ e.type \in ExemptKinds))
          /\ e.admitted <=> (\/ n \in IdSet(queue')
                              \/ \E g \in flights' : n \in IdSet(g.batch))
C19_AdmissionPredicate == [][C19_AdmitStep]_vars

\* C19 witness: with siteId set, an exempt kind was admitted before consent, a
\* non-exempt kind was admitted after it, and both are in the queue.
C19_Witness ==
  /\ Len(offered) = 3
  /\ offered[2] = [type |-> "performance", consent |-> FALSE, admitted |-> TRUE]
  /\ offered[3] = [type |-> "goal", consent |-> TRUE, admitted |-> TRUE]
  /\ {2, 3} \subseteq IdSet(queue)

\* C20: in every state, whatever is in a fetch attempt or a backoff wait, a
\* track call can run; and the step of an admitted one leaves every send in
\* flight as it was and appends the event to the live queue (which that same
\* step hands to a new flush when batchSize is reached).
C20_CanTrack ==
  Len(offered) < MaxEvents => \A type \in TrackKinds : ENABLED Track(type)
C20_TrackStep ==
  LET n == Len(offered')
      ev == [id |-> n, type |-> offered'[n].type, sessionId |-> sessionId]
  IN (TrackStep /\ offered'[n].admitted)
       => /\ flights \subseteq flights'
          /\ \/ queue' = Append(queue, ev) /\ flights' = flights
             \/ /\ queue' = <<>>
                /\ \E g \in flights' \ flights :
                     /\ flights' = flights \cup {g}
                     /\ g.batch = Append(queue, ev)
C20_ProducersNotBlocked == [] C20_CanTrack /\ [][C20_TrackStep]_vars

\* C20 witness: one send is in a backoff wait, another in a fetch attempt, and
\* an event enqueued after both snapshots is in the queue.
C20_Witness ==
  \E f, g \in flights :
    /\ f.pc = "Backoff" /\ g.pc = "Attempting"
    /\ queue # <<>>
    /\ \A i \in DOMAIN queue : /\ queue[i].id > MaxId(f.batch, 0)
                                /\ queue[i].id > MaxId(g.batch, 0)

\* C21: the event an enqueue call admits while a session exists enters the
\* queue (or the batch that call flushed) carrying the tracker's session id; a
\* session id, once created, is never changed; so every event admitted after
\* grantConsent(), wherever it is held, carries the one session id.
C21_BackFillStep ==
  LET n == Len(offered')
  IN (TrackStep /\ offered'[n].admitted /\ sessionId # "")
       => \E e \in EventsOf(queue') \cup UNION {EventsOf(g.batch) : g \in flights' \ flights} :
            e.id = n /\ e.sessionId = sessionId
C21_SessionFixed == sessionId # "" => sessionId' = sessionId
C21_SameSession ==
  \A e \in AllEvents :
    offered[e.id].consent => (sessionId # "" /\ e.sessionId = sessionId)
C21_SessionBackFill ==
  [] C21_SameSession /\ [][C21_BackFillStep /\ C21_SessionFixed]_vars

\* C21 witness: two events admitted after consent, one delivered and one still
\* in the queue, a second grantConsent() call having been possible in between;
\* both carry the session id.
C21_Witness ==
  /\ sessionId # ""
  /\ \E k \in DOMAIN delivered : \E e \in EventsOf(delivered[k].events) :
       offered[e.id].consent /\ e.sessionId = sessionId
  /\ \E e \in EventsOf(queue) : offered[e.id].consent /\ e.sessionId = sessionId

\* C22: when an enqueue call that admitted its event returns, the queue is
\* shorter than batchSize, and it is empty if the push brought it to batchSize
\* or beyond, whatever a failed flush had put back before the call.
C22_AdmittedStep ==
  LET n == Len(offered')
  IN (TrackStep /\ offered'[n].admitted)
       => /\ Len(queue') < config.batchSize
          /\ (Len(queue) + 1 >= config.batchSize => queue' = <<>>)
C22_LengthAfterEnqueue == [][C22_AdmittedStep]_vars

\* C22 witness: failed flushes had put back as many events as batchSize or
\* more, and the enqueue call that followed has flushed them all with its own
\* event: the queue is empty and the batch in flight is longer than batchSize.
C22_Witness ==
  /\ queue = <<>>
  /\ lastSend.outcome = "Failed"
  /\ \E f \in flights :
       /\ Len(f.batch) > config.batchSize
       /\ f.batch[Len(f.batch)].id = Len(offered)
       /\ f.fetches = 1 /\ f.pc = "Attempting"

\* C23: every batch handed to the transport holds at least one event: the
\* batch of every send in flight, with the body made from it, and every body
\* the endpoint answered or the beacon accepted.
C23_InFlightNonEmpty ==
  \A f \in flights : Len(f.batch) >= 1 /\ f.body.events = f.batch
C23_HandedOffNonEmpty ==
  /\ \A k \in DOMAIN delivered : Len(delivered[k].events) >= 1
  /\ \A k \in DOMAIN beaconed : Len(beaconed[k].events) >= 1
C23_NoEmptyBatch == C23_InFlightNonEmpty /\ C23_HandedOffNonEmpty

\* C23 witness: one batch was accepted by the beacon, one was answered 2xx,
\* one is in flight, and the queue is empty, so that the timer callback, were
\* it to run now, would find nothing to send.
C23_Witness ==
  /\ beaconed # <<>> /\ delivered # <<>> /\ flights # {}
  /\ queue = <<>>
  /\ ENABLED (TimerFlush /\ UNCHANGED vars)

\* C24: in every reachable state the session id is non-empty exactly when
\* consent has been granted; and an event admitted before grantConsent()
\* carries no session id wherever it is held, a body delivered after consent
\* included.
C24_SessionIffConsent == (sessionId # "") <=> hasConsent
C24_EarlyEventsBare ==
  \A e \in AllEvents : ~offered[e.id].consent => e.sessionId = ""
C24_SessionExactlyWithConsent == C24_SessionIffConsent /\ C24_EarlyEventsBare

\* C24 witness: one body answered 2xx holds an event admitted before consent,
\* without a session id, next to an event admitted after consent, with it.
C24_Witness ==
  /\ hasConsent /\ sessionId # ""
  /\ \E k \in DOMAIN delivered :
       \E e, g \in EventsOf(delivered[k].events) :
         /\ ~offered[e.id].consent /\ e.sessionId = ""
         /\ offered[g.id].consent /\ g.sessionId = sessionId

\* C25: a POST whose body has an events list appends the events to the stored
\* list in their order and answers 200; a GET answers 200 with the stored list
\* and leaves it as it was; any other method answers 405 and leaves it as it
\* was; a POST whose body has no events list answers 500 and leaves it as it
\* was.  No step makes the stored list shorter or changes what it held.
C25_HandleStep(req) ==
  Handle(req) =>
    /\ (req.method = "POST" /\ HasEvents(req.body)) =>
         /\ response'.status = 200
         /\ Len(storedEvents') = Len(storedEvents) + Len(req.body.events)
         /\ \A i \in DOMAIN req.body.events :
              storedEvents'[Len(storedEvents) + i] = req.body.events[i]
    /\ req.method = "GET" =>
         /\ response'.status = 200
         /\ response'.json = [events |-> storedEvents]
         /\ storedEvents' = storedEvents
    /\ req.method \notin {"POST", "GET"} =>
         response'.status = 405 /\ storedEvents' = storedEvents
    /\ (req.method = "POST" /\ ~HasEvents(req.body)) =>
         response'.status = 500 /\ storedEvents' = storedEvents
C25_NeverShrinks ==
  /\ Len(storedEvents') >= Len(storedEvents)
  /\ SubSeq(storedEvents', 1, Len(storedEvents)) = storedEvents
C25_EndpointStore ==
  [][(\A req \in Requests : C25_HandleStep(req)) /\ C25_NeverShrinks]_vars

\* C25 witness: the store holds the events of two POSTs, two different events
\* among them, and the last request, a POST without an events list, was
\* answered 500.
C25_Witness ==
  /\ Len(storedEvents) > MaxPosted
  /\ \E i, j \in DOMAIN storedEvents : storedEvents[i] # storedEvents[j]
  /\ response.status = 500

====
